---- MODULE Spec2Model ----
(***************************************************************************)
(* Model of google_ads_api_scripts/generate_refresh_token.py: a one-shot   *)
(* interactive OAuth authorization-code flow.  The client-secret file, the *)
(* operator's input line and the outcome of the library's token exchange   *)
(* are the environment; everything else is translated from the script.     *)
(***************************************************************************)
EXTENDS Integers, Sequences, FiniteSets, TLC

VARIABLES
    file,                    \* content of CREDENTIALS_FILE on disk
    pc,                      \* position of the run in generate_refresh_token
    out,                     \* lines printed to standard output so far
    existing_uris,           \* local of generate_refresh_token (line 44)
    redirect_uri,            \* local of generate_refresh_token (lines 48/51)
    flow,                    \* the Flow object (lines 56-60) and its session token
    auth_url,                \* local of generate_refresh_token (line 63)
    typed,                   \* what the operator typed at the prompt (before .strip())
    authorization_response,  \* local of generate_refresh_token (line 79)
    handed,                  \* argument the exchange call was invoked with (line 83)
    exc,                     \* exception in flight / that ended the run
    inputReads,              \* number of calls of input()
    fetchCalls,              \* number of calls of flow.fetch_token
    runs                     \* results of the calls of show_oauth_client_info

vars == <<file, pc, out, existing_uris, redirect_uri, flow, auth_url, typed,
          authorization_response, handed, exc, inputReads, fetchCalls, runs>>

----------------------------------------------------------------------------
(* Bounds *)

MaxUris == 2        \* longest redirect_uris list in the file
MaxLineLen == 2     \* longest line the operator types
MaxRuns == 2        \* repeated calls of the inspection step in SpecInspect

----------------------------------------------------------------------------
(* Values.  Python/JSON values are tagged so that None, strings, lists and *)
(* dicts can sit in the same variable.                                     *)

JNull == [t |-> "null"]
JStr(s) == [t |-> "str", v |-> s]
JList(s) == [t |-> "list", v |-> s]
JObj(d) == [t |-> "object", v |-> d]
Unset == [t |-> "unset"]
Chars(s) == [t |-> "chars", v |-> s]
EOF == [t |-> "eof"]

NoExc == [type |-> "", msg |-> ""]
Exc(ty, m) == [type |-> ty, msg |-> m]

CREDENTIALS_FILE == "client_secret.json"
REDIRECT_URI == "http://localhost:8080/callback"
SCOPES == <<"https://www.googleapis.com/auth/adwords">>

Rule == "============================================================"
Line(text, arg) == <<text, arg>>

\* f"{v}" : a str formats as itself, None as the text None
Format(v) == IF v.t = "str" THEN v.v ELSE "None"

\* str(KeyError(k)) is repr(k)
Repr(s) == "'" \o s \o "'"

SeqsUpTo(S, n) == UNION {[1..k -> S] : k \in 0..n}
Restrict(f, S) == [k \in S |-> f[k]]

----------------------------------------------------------------------------
(* The environment: possible contents of the client-secret file.           *)

URIs == {REDIRECT_URI, "https://app.example/oauth2callback"}
InnerKeys == {"client_id", "client_secret", "redirect_uris"}
UriVals == {JNull} \cup {JList(s) : s \in SeqsUpTo(URIs, MaxUris)}
FullInner == [client_id : {JStr("X")}, client_secret : {JStr("Y")}, redirect_uris : UriVals]
InnerDicts == {Restrict(f, S) : f \in FullInner, S \in SUBSET InnerKeys}
Inners == {JNull} \cup {JObj(d) : d \in InnerDicts}
TopKeys == {"web", "installed"}
TopDicts == UNION {[S -> Inners] : S \in SUBSET TopKeys}
EmptyDict == [k \in {} |-> JNull]

Files == {[kind |-> "missing", creds |-> EmptyDict], [kind |-> "malformed", creds |-> EmptyDict]}
         \cup {[kind |-> "json", creds |-> c] : c \in TopDicts}

\* what the operator can type: a line of characters, or end of input
Alphabet == {" ", "c"}
Whitespace == {" "}
TypedLines == {Chars(s) : s \in SeqsUpTo(Alphabet, MaxLineLen)}

\* what the token endpoint can answer
TokenKeys == {"access_token", "refresh_token", "expires_at"}
FullToken == [access_token |-> JStr("A"), refresh_token |-> JStr("R"), expires_at |-> JStr("E")]
Tokens == {Restrict(FullToken, S \cup {"access_token"}) : S \in SUBSET TokenKeys}
ExchangeErrors == {Exc("InvalidGrantError", "invalid_grant"), Exc("ConnectionError", "connection refused")}
NoFlow == [client_config |-> EmptyDict, redirect_uri |-> Unset, token |-> EmptyDict]

----------------------------------------------------------------------------
(* show_oauth_client_info, lines 18-40 *)

\* faulty variant of ClientType: the test is made on the other key
ClientTypeInstalledFirst(creds) == IF "installed" \in DOMAIN creds THEN "installed" ELSE "web"
\* client_type = 'web' if 'web' in creds else 'installed'
ClientType(creds) == IF "web" \in DOMAIN creds THEN "web" ELSE "installed"

InfoHeader == <<Line(Rule, JNull), Line("YOUR OAUTH CLIENT INFO:", JNull), Line(Rule, JNull)>>

RECURSIVE UriLines(_)
UriLines(s) == IF s = <<>> THEN <<>>
               ELSE <<Line("  - ", JStr(Head(s)))>> \o UriLines(Tail(s))

\* client_info.get('redirect_uris', [])
GetRedirectUris(info) == IF "redirect_uris" \in DOMAIN info THEN info["redirect_uris"] ELSE JList(<<>>)

\* faulty variant of FileAfterRead: the file is opened for writing and truncated
FileAfterTruncate(f) == [kind |-> "malformed", creds |-> EmptyDict]
\* with open(CREDENTIALS_FILE, 'r') as f: the file is only read
FileAfterRead(f) == f

Result(raised, lines, ret, f) == [raised |-> raised, out |-> lines, ret |-> ret, file |-> FileAfterRead(f)]

show_oauth_client_info(f) ==
    IF f.kind = "missing" THEN Result(Exc("FileNotFoundError", CREDENTIALS_FILE), <<>>, Unset, f)
    ELSE IF f.kind = "malformed" THEN Result(Exc("JSONDecodeError", "Expecting value"), <<>>, Unset, f)
    ELSE LET creds == f.creds
             client_type == ClientType(creds)
         IN IF client_type \notin DOMAIN creds
            THEN Result(Exc("KeyError", Repr(client_type)), <<>>, Unset, f)
            ELSE LET client_info == creds[client_type]
                 IN IF client_info.t # "object"
                    THEN Result(Exc("TypeError", "not subscriptable"), InfoHeader, Unset, f)
                    ELSE IF "client_id" \notin DOMAIN client_info.v
                    THEN Result(Exc("KeyError", Repr("client_id")), InfoHeader, Unset, f)
                    ELSE LET info == client_info.v
                             idLines == InfoHeader
                                        \o <<Line("Client ID: ", JStr(Format(info["client_id"]))),
                                             Line("App Type: ", JStr(client_type))>>
                         IN IF "redirect_uris" \in DOMAIN info
                            THEN IF info["redirect_uris"].t # "list"
                                 THEN Result(Exc("TypeError", "not iterable"),
                                             idLines \o <<Line("Configured Redirect URIs:", JNull)>>, Unset, f)
                                 ELSE Result(NoExc,
                                             idLines \o <<Line("Configured Redirect URIs:", JNull)>>
                                             \o UriLines(info["redirect_uris"].v)
                                             \o <<Line(Rule, JNull)>>,
                                             GetRedirectUris(info), f)
                            ELSE Result(NoExc,
                                        idLines \o <<Line("No redirect URIs found in the JSON file", JNull),
                                                     Line(Rule, JNull)>>,
                                        GetRedirectUris(info), f)

----------------------------------------------------------------------------
(* generate_refresh_token, lines 42-102 *)

\* d[k] on a dict: KeyError when the key is absent
Value(v) == [raised |-> NoExc, val |-> v]
Raise(e) == [raised |-> e, val |-> JNull]
Lookup(d, k) == IF k \in DOMAIN d THEN Value(d[k]) ELSE Raise(Exc("KeyError", Repr(k)))

\* truth value of a Python list: empty is false
Truthy(v) == v.t = "list" /\ v.v # <<>>

\* faulty variant of SelectRedirectTarget: the last registered entry is taken
SelectLastTarget(uris) ==
    IF Truthy(uris)
    THEN [redirect_uri |-> JStr(uris.v[Len(uris.v)]),
          out |-> <<Line("Using existing redirect URI: ", JStr(uris.v[Len(uris.v)]))>>]
    ELSE [redirect_uri |-> JStr(REDIRECT_URI),
          out |-> <<Line("Using default redirect URI: ", JStr(REDIRECT_URI)),
                    Line("Make sure you've added this URI to your OAuth client in Google Cloud Console!", JNull)>>]
\* lines 47-53
SelectRedirectTarget(uris) ==
    IF Truthy(uris)
    THEN [redirect_uri |-> JStr(uris.v[1]),
          out |-> <<Line("Using existing redirect URI: ", JStr(uris.v[1]))>>]
    ELSE [redirect_uri |-> JStr(REDIRECT_URI),
          out |-> <<Line("Using default redirect URI: ", JStr(REDIRECT_URI)),
                    Line("Make sure you've added this URI to your OAuth client in Google Cloud Console!", JNull)>>]

\* Flow.from_client_secrets_file(CREDENTIALS_FILE, scopes=SCOPES): the library
\* loads the same file and keeps the inner object of the client type; it raises
\* when the file cannot be loaded or has neither client type
from_client_secrets_file(f) ==
    IF f.kind = "missing" THEN Raise(Exc("FileNotFoundError", CREDENTIALS_FILE))
    ELSE IF f.kind = "malformed" THEN Raise(Exc("JSONDecodeError", "Expecting value"))
    ELSE IF ClientType(f.creds) \notin DOMAIN f.creds \/ f.creds[ClientType(f.creds)].t # "object"
    THEN Raise(Exc("ValueError", "Client secrets must be for a web or installed app."))
    ELSE Value([client_config |-> f.creds[ClientType(f.creds)].v, redirect_uri |-> Unset, token |-> EmptyDict])

\* flow.authorization_url(access_type='offline', include_granted_scopes='true', prompt='consent')
authorization_url(fl) ==
    [t |-> "url", redirect_uri |-> fl.redirect_uri, scope |-> SCOPES,
     access_type |-> "offline", include_granted_scopes |-> "true", prompt |-> "consent"]

Instructions(url, target) ==
    <<Line("", JNull), Line(Rule, JNull),
      Line("STEP 1: Visit this URL in your browser:", JNull),
      Line("", url),
      Line(Rule, JNull),
      Line("", JNull),
      Line("STEP 2: After authorizing, you'll be redirected to: ", target),
      Line("The page might not load (that's normal for localhost).", JNull),
      Line("Copy the ENTIRE URL from your browser's address bar and paste it below.", JNull),
      Line(Rule, JNull)>>

\* str.strip(): leading and trailing whitespace is removed
RECURSIVE LStrip(_)
LStrip(s) == IF s # <<>> /\ Head(s) \in Whitespace THEN LStrip(Tail(s)) ELSE s
RECURSIVE RStrip(_)
RStrip(s) == IF s # <<>> /\ s[Len(s)] \in Whitespace THEN RStrip(SubSeq(s, 1, Len(s) - 1)) ELSE s
\* faulty variant of Strip: only the trailing newline side is cleaned
StripRightOnly(s) == RStrip(s)
Strip(s) == LStrip(RStrip(s))

\* flow.credentials.refresh_token: the library builds the credentials from the
\* session token; refresh_token is token.get('refresh_token'), the expiry is
\* token['expires_at']
RefreshToken(fl) ==
    IF fl.token = EmptyDict THEN Raise(Exc("ValueError", "There is no access token for this session"))
    ELSE IF "expires_at" \notin DOMAIN fl.token THEN Raise(Exc("KeyError", Repr("expires_at")))
    ELSE IF "refresh_token" \in DOMAIN fl.token THEN Value(fl.token["refresh_token"])
    ELSE Value(JNull)

Static(text) == [text |-> text, fmt |-> FALSE, r |-> Value(JNull)]
Shown(text, r) == [text |-> text, fmt |-> TRUE, r |-> r]

\* faulty variant of EnvClientId: the assignment shows the other configuration field
EnvClientIdFromSecret(fl) == Lookup(fl.client_config, "client_secret")
\* line 93: flow.client_config['client_id']
EnvClientId(fl) == Lookup(fl.client_config, "client_id")

\* the print statements of lines 85-95, in order
ReportSteps(fl) ==
    <<Static(""), Static(Rule),
      Static("SUCCESS! Your credentials:"),
      Static(Rule),
      Shown("CLIENT_ID: ", Lookup(fl.client_config, "client_id")),
      Shown("CLIENT_SECRET: ", Lookup(fl.client_config, "client_secret")),
      Shown("REFRESH_TOKEN: ", RefreshToken(fl)),
      Static(Rule),
      Static(""), Static("Add these to your environment variables:"),
      Shown("GOOGLE_ADS_CLIENT_ID=", EnvClientId(fl)),
      Shown("GOOGLE_ADS_CLIENT_SECRET=", Lookup(fl.client_config, "client_secret")),
      Shown("GOOGLE_ADS_REFRESH_TOKEN=", RefreshToken(fl))>>

\* the statements run in order; the first one that raises ends the block
RECURSIVE RunPrints(_)
RunPrints(steps) ==
    IF steps = <<>> THEN [raised |-> NoExc, out |-> <<>>]
    ELSE LET s == Head(steps)
         IN IF s.r.raised # NoExc THEN [raised |-> s.r.raised, out |-> <<>>]
            ELSE LET rest == RunPrints(Tail(steps))
                 IN [raised |-> rest.raised,
                     out |-> <<Line(s.text, IF s.fmt THEN JStr(Format(s.r.val)) ELSE JNull)>> \o rest.out]

\* faulty variant of ErrorLines: the last hint is left out
ErrorLinesTwoHints(e) ==
    <<Line("", JNull), Line("Error: ", JStr(e.msg)),
      Line("", JNull), Line("Common issues:", JNull),
      Line("1. Redirect URI mismatch - check your OAuth client configuration", JNull),
      Line("2. Invalid authorization code - try generating a new auth URL", JNull)>>
\* lines 98-102
ErrorLines(e) ==
    <<Line("", JNull), Line("Error: ", JStr(e.msg)),
      Line("", JNull), Line("Common issues:", JNull),
      Line("1. Redirect URI mismatch - check your OAuth client configuration", JNull),
      Line("2. Invalid authorization code - try generating a new auth URL", JNull),
      Line("3. Network issues - check your internet connection", JNull)>>

\* faulty variant of AfterInspect: an exception of the inspection step is swallowed
AfterInspectSwallowed(raised) == "ConfigLoaded"
\* line 44 is outside any try block: an exception ends the run
AfterInspect(raised) == IF raised = NoExc THEN "ConfigLoaded" ELSE "Crashed"

\* faulty variant of AfterHandler: the handler sends the operator back to the prompt
AfterHandlerRetry(e) == "URLPresented"
\* after line 102 the function returns
AfterHandler(e) == "Failed"

----------------------------------------------------------------------------
Init ==
    /\ file \in Files
    /\ pc = "Start"
    /\ out = <<>>
    /\ existing_uris = Unset
    /\ redirect_uri = Unset
    /\ flow = NoFlow
    /\ auth_url = Unset
    /\ typed = Unset
    /\ authorization_response = Unset
    /\ handed = Unset
    /\ exc = NoExc
    /\ inputReads = 0
    /\ fetchCalls = 0
    /\ runs = <<>>

\* line 44: existing_uris = show_oauth_client_info(); an exception is not caught
InspectConfiguration ==
    /\ pc = "Start"
    /\ LET r == show_oauth_client_info(file)
       IN /\ file' = r.file
          /\ out' = out \o r.out
          /\ runs' = Append(runs, [raised |-> r.raised, out |-> r.out, ret |-> r.ret])
          /\ pc' = AfterInspect(r.raised)
          /\ existing_uris' = r.ret
          /\ exc' = r.raised
    /\ UNCHANGED <<redirect_uri, flow, auth_url, typed, authorization_response,
                   handed, inputReads, fetchCalls>>

\* lines 47-53
SelectRedirect ==
    /\ pc = "ConfigLoaded"
    /\ LET r == SelectRedirectTarget(existing_uris)
       IN /\ redirect_uri' = r.redirect_uri
          /\ out' = out \o r.out
    /\ pc' = "TargetSelected"
    /\ UNCHANGED <<file, existing_uris, flow, auth_url, typed, authorization_response,
                   handed, exc, inputReads, fetchCalls, runs>>

\* lines 56-76; line 56 is outside any try block
BuildAuthorizationRequest ==
    /\ pc = "TargetSelected"
    /\ LET r == from_client_secrets_file(file)
       IN IF r.raised # NoExc
          THEN /\ pc' = "Crashed"
               /\ exc' = r.raised
               /\ UNCHANGED <<flow, auth_url, out>>
          ELSE LET fl == [r.val EXCEPT !.redirect_uri = redirect_uri]
                   url == authorization_url(fl)
               IN /\ flow' = fl
                  /\ auth_url' = url
                  /\ out' = out \o Instructions(url, redirect_uri)
                  /\ pc' = "URLPresented"
                  /\ exc' = exc
    /\ UNCHANGED <<file, existing_uris, redirect_uri, typed, authorization_response,
                   handed, inputReads, fetchCalls, runs>>

\* line 79: input(...).strip(); end of input raises EOFError outside the try
CollectResponse ==
    /\ pc = "URLPresented"
    /\ \E t \in TypedLines \cup {EOF} :
          /\ typed' = t
          /\ IF t = EOF
             THEN /\ pc' = "Crashed"
                  /\ exc' = Exc("EOFError", "EOF when reading a line")
                  /\ authorization_response' = authorization_response
             ELSE /\ pc' = "ResponseCollected"
                  /\ exc' = exc
                  /\ authorization_response' = Chars(Strip(t.v))
    /\ inputReads' = inputReads + 1
    /\ out' = out \o <<Line("", JNull), Line("Paste the full redirect URL here: ", JNull)>>
    /\ UNCHANGED <<file, existing_uris, redirect_uri, flow, auth_url, handed, fetchCalls, runs>>

\* line 83: flow.fetch_token(authorization_response=authorization_response).
\* The library reads client_config['client_secret'] first, then asks the token
\* endpoint; the answer is the environment's choice.
FetchToken ==
    /\ pc = "ResponseCollected"
    /\ handed' = authorization_response
    /\ fetchCalls' = fetchCalls + 1
    /\ IF Lookup(flow.client_config, "client_secret").raised # NoExc
       THEN /\ exc' = Lookup(flow.client_config, "client_secret").raised
            /\ pc' = "Except"
            /\ flow' = flow
       ELSE \/ \E e \in ExchangeErrors :
                 /\ exc' = e
                 /\ pc' = "Except"
                 /\ flow' = flow
            \/ \E tok \in Tokens :
                 /\ flow' = [flow EXCEPT !.token = tok]
                 /\ pc' = "Exchanged"
                 /\ exc' = exc
    /\ UNCHANGED <<file, out, existing_uris, redirect_uri, auth_url, typed,
                   authorization_response, inputReads, runs>>

\* lines 85-95, inside the try block
ReportCredentials ==
    /\ pc = "Exchanged"
    /\ LET r == RunPrints(ReportSteps(flow))
       IN /\ out' = out \o r.out
          /\ exc' = r.raised
          /\ pc' = IF r.raised = NoExc THEN "Success" ELSE "Except"
    /\ UNCHANGED <<file, existing_uris, redirect_uri, flow, auth_url, typed,
                   authorization_response, handed, inputReads, fetchCalls, runs>>

\* lines 97-102: except Exception as e
HandleError ==
    /\ pc = "Except"
    /\ out' = out \o ErrorLines(exc)
    /\ pc' = AfterHandler(exc)
    /\ UNCHANGED <<file, existing_uris, redirect_uri, flow, auth_url, typed,
                   authorization_response, handed, exc, inputReads, fetchCalls, runs>>

Next ==
    \/ InspectConfiguration
    \/ SelectRedirect
    \/ BuildAuthorizationRequest
    \/ CollectResponse
    \/ FetchToken
    \/ ReportCredentials
    \/ HandleError

Spec == Init /\ [][Next]_vars

\* the inspection step called repeatedly on the file as it is left on disk
InspectAgain ==
    /\ pc = "Start"
    /\ Len(runs) < MaxRuns
    /\ LET r == show_oauth_client_info(file)
       IN /\ file' = r.file
          /\ out' = out \o r.out
          /\ runs' = Append(runs, [raised |-> r.raised, out |-> r.out, ret |-> r.ret])
    /\ UNCHANGED <<pc, existing_uris, redirect_uri, flow, auth_url, typed,
                   authorization_response, handed, exc, inputReads, fetchCalls>>

NextInspect == InspectAgain

SpecInspect == Init /\ [][NextInspect]_vars
----------------------------------------------------------------------------
(* Properties *)

Printed(o, l) == \E i \in 1..Len(o) : o[i] = l
Labels(o) == {o[i][1] : i \in 1..Len(o)}

CredLabels == {"CLIENT_ID: ", "CLIENT_SECRET: ", "REFRESH_TOKEN: ",
               "GOOGLE_ADS_CLIENT_ID=", "GOOGLE_ADS_CLIENT_SECRET=", "GOOGLE_ADS_REFRESH_TOKEN="}
SuccessLabels == {"SUCCESS! Your credentials:"} \cup CredLabels
Hints == {"1. Redirect URI mismatch - check your OAuth client configuration",
          "2. Invalid authorization code - try generating a new auth URL",
          "3. Network issues - check your internet connection"}
ErrorLabels == {"Error: ", "Common issues:"} \cup Hints

WarningLine == Line("Make sure you've added this URI to your OAuth client in Google Cloud Console!", JNull)

\* the inner object the file holds for its client type, read off the file itself
FileHasType == file.kind = "json" /\ (DOMAIN file.creds) # {}
FileType == IF "web" \in DOMAIN file.creds THEN "web" ELSE "installed"
FileInner == file.creds[FileType]
FileRegistered ==
    IF "redirect_uris" \in DOMAIN FileInner.v THEN FileInner.v["redirect_uris"].v ELSE <<>>

\* C1: the selection step always completes; it takes the first entry of a
\* non-empty list returned by the inspection step, and otherwise (field absent
\* or list empty in the file) the static default, with the warning printed.
C1_RedirectSelection ==
    [][pc = "ConfigLoaded" =>
          /\ pc' = "TargetSelected"
          /\ existing_uris = JList(FileRegistered)
          /\ IF existing_uris.v # <<>>
             THEN /\ redirect_uri' = JStr(Head(existing_uris.v))
                  /\ ~Printed(out', WarningLine)
             ELSE /\ redirect_uri' = JStr("http://localhost:8080/callback")
                  /\ Printed(out', WarningLine)]_vars

C1_Witness ==
    /\ pc = "TargetSelected"
    /\ Len(existing_uris.v) = 2
    /\ existing_uris.v[1] # existing_uris.v[2]
    /\ redirect_uri = JStr(existing_uris.v[1])

\* C2: when fetch_token raises, the handler prints the error's message and the
\* three hints, no credential line is printed, and the run ends normally.
C2_ExchangeErrorReported ==
    [][/\ (pc = "ResponseCollected" /\ exc' # NoExc) => pc' = "Except"
       /\ (pc = "Except" /\ flow.token = EmptyDict) =>
             /\ pc' = "Failed"
             /\ Printed(out', Line("Error: ", JStr(exc.msg)))
             /\ Hints \subseteq Labels(out')
             /\ Labels(out') \cap SuccessLabels = {}]_vars

C2_Witness ==
    /\ pc = "Failed"
    /\ flow.token = EmptyDict
    /\ exc.msg = "invalid_grant"
    /\ Printed(out, Line("Error: ", JStr("invalid_grant")))

\* C3: when the exchange has succeeded and the flow exposes client ID X, client
\* secret Y and refresh token R, the report prints each value once in the
\* labeled block and once as an environment assignment, the same in both.
C3_CredentialsPrintedTwice ==
    [][(/\ pc = "Exchanged"
        /\ {"client_id", "client_secret"} \subseteq DOMAIN flow.client_config
        /\ {"refresh_token", "expires_at"} \subseteq DOMAIN flow.token) =>
          LET X == JStr(flow.client_config["client_id"].v)
              Y == JStr(flow.client_config["client_secret"].v)
              R == JStr(flow.token["refresh_token"].v)
              new == SubSeq(out', Len(out) + 1, Len(out'))
              At(label) == {new[i][2] : i \in {j \in 1..Len(new) : new[j][1] = label}}
          IN /\ pc' = "Success"
             /\ At("CLIENT_ID: ") = {X} /\ At("GOOGLE_ADS_CLIENT_ID=") = {X}
             /\ At("CLIENT_SECRET: ") = {Y} /\ At("GOOGLE_ADS_CLIENT_SECRET=") = {Y}
             /\ At("REFRESH_TOKEN: ") = {R} /\ At("GOOGLE_ADS_REFRESH_TOKEN=") = {R}]_vars

C3_Witness ==
    /\ pc = "Success"
    /\ Printed(out, Line("GOOGLE_ADS_CLIENT_ID=", JStr("X")))
    /\ Printed(out, Line("GOOGLE_ADS_CLIENT_SECRET=", JStr("Y")))
    /\ Printed(out, Line("GOOGLE_ADS_REFRESH_TOKEN=", JStr("R")))

\* the file cannot be loaded by the inspection step
LoadFails ==
    \/ file.kind = "missing"
    \/ file.kind = "malformed"
    \/ ~FileHasType
    \/ FileType \notin DOMAIN file.creds
    \/ FileInner.t # "object"
    \/ "client_id" \notin DOMAIN FileInner.v
    \/ ("redirect_uris" \in DOMAIN FileInner.v /\ FileInner.v["redirect_uris"].t # "list")

\* C4: when loading the configuration fails, the run ends in the inspection
\* step with an uncaught error: no authorization URL is built or printed, no
\* input is read and the exchange is never called.
C4_LoadFailureStopsRun ==
    (pc # "Start" /\ LoadFails) =>
        /\ pc = "Crashed"
        /\ exc # NoExc
        /\ Len(runs) = 1 /\ runs[1].raised = exc
        /\ existing_uris = Unset /\ redirect_uri = Unset
        /\ flow = NoFlow /\ auth_url = Unset
        /\ "STEP 1: Visit this URL in your browser:" \notin Labels(out)
        /\ inputReads = 0 /\ typed = Unset
        /\ fetchCalls = 0 /\ handed = Unset

C4_Witness ==
    /\ pc = "Crashed"
    /\ file.kind = "malformed"
    /\ exc.type = "JSONDecodeError"
    /\ fetchCalls = 0

Rank(p) ==
    CASE p = "Start" -> 0
      [] p = "ConfigLoaded" -> 1
      [] p = "TargetSelected" -> 2
      [] p = "URLPresented" -> 3
      [] p = "ResponseCollected" -> 4
      [] p = "Exchanged" -> 5
      [] p = "Except" -> 6
      [] p \in {"Success", "Failed", "Crashed"} -> 7

\* C5: every step moves the run forward in the order Start, ConfigLoaded,
\* URLPresented, ResponseCollected, Success or Failed; input is read at most
\* once, the exchange is tried at most once, and the error handler ends the run.
C5_LinearNoRetry ==
    [][/\ Rank(pc') > Rank(pc)
       /\ inputReads' <= 1
       /\ fetchCalls' <= 1
       /\ (pc = "Except" => pc' = "Failed" /\ inputReads' = inputReads /\ fetchCalls' = fetchCalls)]_vars

C5_Witness ==
    /\ pc = "Failed"
    /\ inputReads = 1
    /\ fetchCalls = 1
    /\ exc.msg = "connection refused"

C7_FieldsPresentOnSuccess ==
    pc = "Success" =>
        /\ "client_id" \in DOMAIN flow.client_config /\ flow.client_config["client_id"] # JNull
        /\ "client_secret" \in DOMAIN flow.client_config /\ flow.client_config["client_secret"] # JNull
        /\ "refresh_token" \in DOMAIN flow.token /\ flow.token["refresh_token"] # JNull
        /\ ~Printed(out, Line("REFRESH_TOKEN: ", JStr("None")))

\* the exchange is called after every line the operator types
ExchangeAlwaysInvoked ==
    typed.t = "chars" =>
        /\ pc \in {"ResponseCollected", "Exchanged", "Except", "Success", "Failed"}
        /\ IF pc = "ResponseCollected" THEN ENABLED FetchToken ELSE fetchCalls = 1

\* C8 as stated: the exchange is called for every line typed, with the line
\* exactly as the operator typed it.
C8_RawInputHandedOver ==
    /\ ExchangeAlwaysInvoked
    /\ fetchCalls = 1 => handed = typed

\* C8 amended: the exchange is called for every line typed, with the line
\* stripped of its leading and trailing whitespace and otherwise unchanged.
C8_StrippedInputHandedOver ==
    /\ ExchangeAlwaysInvoked
    /\ fetchCalls = 1 =>
          \E i, j \in 0..Len(typed.v) :
             /\ i + j <= Len(typed.v)
             /\ handed = Chars(SubSeq(typed.v, i + 1, Len(typed.v) - j))
             /\ \A k \in 1..i : typed.v[k] = " "
             /\ \A k \in (Len(typed.v) - j + 1)..Len(typed.v) : typed.v[k] = " "
             /\ (handed.v # <<>> => handed.v[1] # " " /\ handed.v[Len(handed.v)] # " ")

C8_Witness ==
    /\ fetchCalls = 1
    /\ typed = Chars(<<" ", "c">>)
    /\ handed = Chars(<<"c">>)

\* C9: the displayed client type is web whenever the file has the key web and
\* installed otherwise, and the inner object of that key is the one shown; with
\* neither key, or without client_id in that object, the step raises and
\* returns no list.
C9_ClientTypeAndConfigError ==
    pc # "Start" =>
        LET r == runs[1]
            shownTypes == {r.out[i][2] : i \in {j \in 1..Len(r.out) : r.out[j][1] = "App Type: "}}
        IN /\ shownTypes \subseteq {JStr(FileType)}
           /\ r.raised = NoExc =>
                 /\ shownTypes = {JStr(FileType)}
                 /\ Printed(r.out, Line("Client ID: ", FileInner.v["client_id"]))
                 /\ r.ret = JList(FileRegistered)
                 /\ existing_uris = r.ret
           /\ (file.kind = "json" /\ (DOMAIN file.creds \cap {"web", "installed"} = {}
                                      \/ FileInner.t # "object"
                                      \/ "client_id" \notin DOMAIN FileInner.v)) =>
                 /\ r.raised.type \in {"KeyError", "TypeError"}
                 /\ r.ret = Unset /\ existing_uris = Unset
                 /\ pc = "Crashed" /\ exc = r.raised

C9_Witness ==
    /\ pc = "ConfigLoaded"
    /\ DOMAIN file.creds = {"web", "installed"}
    /\ file.creds["installed"].t = "object"
    /\ "client_id" \in DOMAIN file.creds["installed"].v
    /\ file.creds["web"] # file.creds["installed"]
    /\ Printed(out, Line("App Type: ", JStr("web")))

\* C10: no run prints both the success output (banner or a credential line)
\* and the error output (the Error line and the hints).
C10_OutcomesExclusive ==
    ~(Labels(out) \cap SuccessLabels # {} /\ Labels(out) \cap ErrorLabels # {})
====
